---- MODULE Spec2Model ----
(***************************************************************************)
(* Model of pkg/metrics/metrics.go of kubernetes-event-exporter: the       *)
(* metric-instrument bundle (Store) registered in the process-wide         *)
(* prometheus registry, the process-wide reference globalMetricsStore, the *)
(* process-wide timestamp lastEventProcessedTime, and the readiness and    *)
(* liveness routes.                                                        *)
(*                                                                         *)
(* Time is counted in minutes of the monotonic clock; the process starts   *)
(* at minute 0 and the first reading any call can take is minute 1.        *)
(***************************************************************************)
EXTENDS Integers, Sequences, FiniteSets, TLC

\* ---- bounds of the model ------------------------------------------------
MaxNow == 7
MaxStores == 3
NumWriters == 2
NumReaders == 2
MaxRaceNow == 3
MaxIncs == 3

\* ---- program constants --------------------------------------------------
ReadyWindow == 5
StatusOK == 200
StatusServiceUnavailable == 503
Nil == 0

\* name prefixes handed to NewMetricsStore
Prefixes == {"a_", "b_"}

\* the goroutines that call SetLastEventProcessedTime, the requests to
\* /-/ready, and the two callers of NewMetricsStore that run at once
Writers == 1..NumWriters
Readers == 1..NumReaders
Creators == {1, 2}

\* collectors other code of the process may already have put in the
\* default registry (Init registers the Go build-info collector there)
ForeignNames == {"go_build_info", "a_watch_errors"}
Foreign == 0 - 1

\* the order in which the composite literal of NewMetricsStore registers
CreateOrder ==
  << "build_info", "events_sent", "events_discarded", "watch_errors",
     "send_event_errors", "kube_api_read_cache_hits",
     "kube_api_read_cache_misses", "last_processed_event_timestamp" >>

\* a teardown that forgets the last instrument
DestroyOrderShort ==
  << "events_sent", "events_discarded", "watch_errors", "send_event_errors",
     "build_info", "kube_api_read_cache_hits", "kube_api_read_cache_misses" >>

\* the order in which DestroyMetricsStore unregisters
DestroyOrder ==
  << "events_sent", "events_discarded", "watch_errors", "send_event_errors",
     "build_info", "kube_api_read_cache_hits", "kube_api_read_cache_misses",
     "last_processed_event_timestamp" >>

\* the instruments of a Store that are prometheus.Counters
CounterSuffixes ==
  { "events_sent", "events_discarded", "watch_errors", "send_event_errors",
    "kube_api_read_cache_hits", "kube_api_read_cache_misses" }

\* a counter as its constructor returns it
NewCounters == [c \in CounterSuffixes |-> 0]

\* an increment that sets the counter instead of adding to it
IncSets(v) == 1

\* Counter.Inc(): one atomic add
Inc(v) == v + 1

\* instrument names that leave the prefix out
MetricNameNoPrefix(name_prefix, suffix) == suffix

MetricName(name_prefix, suffix) == name_prefix \o suffix

BundleNames(name_prefix) ==
  { MetricName(name_prefix, CreateOrder[i]) : i \in 1..Len(CreateOrder) }

VARIABLES
  registry,                \* prometheus.DefaultRegisterer: set of [name, id]
  stores,                  \* NewMetricsStore calls so far: <<[prefix, ok]>>
  globalMetricsStore,      \* Nil or the index in stores of a Store
  lastEventProcessedTime,  \* time.Time: [wall, ext]
  now,                     \* reading of the clock
  response,                \* what the last step answered, if it was a request
  lastOp,                  \* history: the last operation that ran
  destroyedActive,         \* history: active Store destroyed, none created since
  destroyedSince,          \* history: Stores destroyed since the last create
  fresh,                   \* history: Store created, nothing recorded/destroyed since
  everCreated,             \* history: some NewMetricsStore call returned
  recordedAt,              \* history: clock of the last SetLastEventProcessedTime, 0 if none
  wpc,                     \* per writer: where it is in SetLastEventProcessedTime
  wnow,                    \* per writer: the time.Now() it is storing
  wfirst,                  \* per writer: the word it stored first
  rpc,                     \* per reader: where it is in isEventExporterReady
  robs,                    \* per reader: the words of the timestamp it loaded
  rafter,                  \* history: the reader started after every writer returned
  lastWrite,               \* history: the Time of the store that completed last
  cstate,                  \* per creator: "idle", "run", "ok" or "panic"
  cidx,                    \* per creator: position in CreateOrder
  cstore,                  \* per creator: the Store it is building
  cfree,                   \* history: its names were all free when it started
  coverlap,                \* history: it started while another creator ran
  counters,                \* per Store: the values of its prometheus.Counters
  incCalls                 \* history: per Store, the EventsProcessed.Inc() calls made

raceVars == << wpc, wnow, wfirst, rpc, robs, rafter, lastWrite >>

createVars == << cstate, cidx, cstore, cfree, coverlap >>

countVars == << counters, incCalls >>

vars ==
  << registry, stores, globalMetricsStore, lastEventProcessedTime, now,
     response, lastOp, destroyedActive, destroyedSince, fresh, everCreated,
     recordedAt, raceVars, createVars, countVars >>

\* ---- time.Time ------------------------------------------------------------
\* A time.Time is the words wall and ext (and loc, which no code here reads).
\* time.Now() sets the monotonic flag in wall and the monotonic reading in
\* ext; the zero Time has both words 0.
ZeroTime == [wall |-> 0, ext |-> 0]

TimeNow(clock) == [wall |-> clock, ext |-> clock]

\* t.IsZero(): seconds and nanoseconds are 0; with the monotonic flag set
\* the seconds come from wall and are never 0, without it they are ext.
IsZero(t) == IF t.wall # 0 THEN FALSE ELSE t.ext = 0

\* time.Since(t): with the monotonic flag, the monotonic clock minus ext;
\* without it the wall-clock difference wallAge, in which ext is read as
\* seconds since year 1.
Since(t, clock, wallAge) == IF t.wall # 0 THEN clock - t.ext ELSE wallAge

\* ---- the registry ---------------------------------------------------------
Registered(reg) == { e.name : e \in reg }

\* a registry that accepts a name twice
CanRegisterAlways(reg, name) == TRUE

\* Register: AlreadyRegisteredError when the name is taken
CanRegister(reg, name) == name \notin Registered(reg)

Register(reg, name, id) == reg \cup { [name |-> name, id |-> id] }

\* Unregister: removes the collector of that descriptor and reports whether
\* there was one
Unregister(reg, name) == { e \in reg : e.name # name }

Unregistered(reg, name) == name \in Registered(reg)

\* promauto's constructors register in CreateOrder from position i on and
\* panic at the first name that is taken
RECURSIVE RegisterFrom(_, _, _, _)
RegisterFrom(reg, name_prefix, id, i) ==
  IF i > Len(CreateOrder) THEN [reg |-> reg, ok |-> TRUE]
  ELSE LET name == MetricName(name_prefix, CreateOrder[i])
       IN IF CanRegister(reg, name)
          THEN RegisterFrom(Register(reg, name, id), name_prefix, id, i + 1)
          ELSE [reg |-> reg, ok |-> FALSE]

\* a teardown that panics when Unregister reports an absent collector
RECURSIVE MustUnregisterFrom(_, _, _)
MustUnregisterFrom(reg, name_prefix, i) ==
  IF i > Len(DestroyOrder) THEN [reg |-> reg, ok |-> TRUE]
  ELSE LET name == MetricName(name_prefix, DestroyOrder[i])
       IN IF Unregistered(reg, name)
          THEN MustUnregisterFrom(Unregister(reg, name), name_prefix, i + 1)
          ELSE [reg |-> reg, ok |-> FALSE]

\* DestroyMetricsStore unregisters in DestroyOrder from position i on and
\* drops what Unregister reports
RECURSIVE UnregisterFrom(_, _, _)
UnregisterFrom(reg, name_prefix, i) ==
  IF i > Len(DestroyOrder) THEN [reg |-> reg, ok |-> TRUE]
  ELSE UnregisterFrom(Unregister(reg, MetricName(name_prefix, DestroyOrder[i])),
                      name_prefix, i + 1)

\* ---- readiness ------------------------------------------------------------
\* an evaluator whose window includes its end
isEventExporterReadyInclusive(store, t, clock, wallAge) ==
  IF store = Nil THEN FALSE
  ELSE IF IsZero(t) THEN TRUE
  ELSE Since(t, clock, wallAge) <= ReadyWindow

\* an evaluator without the startup branch: the zero Time is an old event
isEventExporterReadyNoGrace(store, t, clock, wallAge) ==
  IF store = Nil THEN FALSE
  ELSE clock - t.ext < ReadyWindow

isEventExporterReady(store, t, clock, wallAge) ==
  IF store = Nil THEN FALSE
  ELSE IF IsZero(t) THEN TRUE
  ELSE Since(t, clock, wallAge) < ReadyWindow

\* the verdict on the current state (the stored Time is whole here, so the
\* wall-clock branch of Since is not taken)
Ready == isEventExporterReady(globalMetricsStore, lastEventProcessedTime, now, 0)

NoResponse == [route |-> "none", status |-> 0, body |-> ""]

NotReadyResponse ==
  [route |-> "/-/ready", status |-> StatusServiceUnavailable,
   body |-> "Not Ready - No events processed recently"]

ReadyResponse == [route |-> "/-/ready", status |-> StatusOK, body |-> "OK"]

\* a liveness probe that answers what the readiness probe answers
HealthyFollowsReady ==
  [route |-> "/-/healthy",
   status |-> IF Ready THEN StatusOK ELSE StatusServiceUnavailable,
   body |-> IF Ready THEN "OK" ELSE "Not Ready - No events processed recently"]

HealthyResponse == [route |-> "/-/healthy", status |-> StatusOK, body |-> "OK"]

\* lastOp: the operation, its Store, how it ended ("ok" or "panic"), and
\* what the history was when it ran
NoOp ==
  [op |-> "none", store |-> Nil, result |-> "ok", again |-> FALSE,
   adjacent |-> FALSE, dup |-> FALSE, taken |-> FALSE, pre |-> {}]

\* a NewMetricsStore that keeps the reference it finds
ActiveKeepFirst(active, id, ok) == IF ok /\ active = Nil THEN id ELSE active

\* globalMetricsStore = store, reached only when no constructor panicked
ActiveAfterCreate(active, id, ok) == IF ok THEN id ELSE active

\* the Stores a caller holds a handle of
Handles == { i \in 1..Len(stores) : stores[i].ok }

\* a Store of this prefix has all its instruments registered
Live(i) ==
  /\ i \in Handles
  /\ \A n \in BundleNames(stores[i].prefix) : [name |-> n, id |-> i] \in registry

\* a name of this prefix is held by a collector of other code, or some
\* Store of this prefix has an instrument registered
Taken(name_prefix) ==
  \E e \in registry :
     IF e.id = Foreign THEN e.name \in BundleNames(name_prefix)
     ELSE stores[e.id].prefix = name_prefix

\* ---- initial state --------------------------------------------------------
RaceIdle ==
  /\ wpc = [w \in Writers |-> "idle"]
  /\ wnow = [w \in Writers |-> 0]
  /\ wfirst = [w \in Writers |-> "none"]
  /\ rpc = [r \in Readers |-> "idle"]
  /\ robs = [r \in Readers |-> ZeroTime]
  /\ rafter = [r \in Readers |-> FALSE]
  /\ lastWrite = ZeroTime

CreateIdle ==
  /\ cstate = [c \in Creators |-> "idle"]
  /\ cidx = [c \in Creators |-> 0]
  /\ cstore = [c \in Creators |-> Nil]
  /\ cfree = [c \in Creators |-> FALSE]
  /\ coverlap = [c \in Creators |-> FALSE]

Init ==
  /\ RaceIdle
  /\ CreateIdle
  /\ counters = << >>
  /\ incCalls = << >>
  /\ \E f \in SUBSET ForeignNames :
       registry = { [name |-> n, id |-> Foreign] : n \in f }
  /\ stores = << >>
  /\ globalMetricsStore = Nil
  /\ lastEventProcessedTime = ZeroTime
  /\ now = 1
  /\ response = NoResponse
  /\ lastOp = NoOp
  /\ destroyedActive = FALSE
  /\ destroyedSince = {}
  /\ fresh = FALSE
  /\ everCreated = FALSE
  /\ recordedAt = 0

\* ---- operations -----------------------------------------------------------
Tick ==
  /\ now < MaxNow
  /\ now' = now + 1
  /\ lastOp' = NoOp
  /\ response' = NoResponse
  /\ UNCHANGED << registry, stores, globalMetricsStore, lastEventProcessedTime,
                  destroyedActive, destroyedSince, fresh,
                  everCreated, recordedAt >>
  /\ UNCHANGED << raceVars, createVars, countVars >>

\* a NewMetricsStore that starts the new Store with no processed event
NewMetricsStoreResets(name_prefix) ==
  /\ Len(stores) < MaxStores
  /\ LET id == Len(stores) + 1
         r  == RegisterFrom(registry, name_prefix, id, 1)
     IN /\ registry' = r.reg
        /\ stores' = Append(stores, [prefix |-> name_prefix, ok |-> r.ok])
        /\ globalMetricsStore' = ActiveAfterCreate(globalMetricsStore, id, r.ok)
        /\ lastOp' = [op |-> "Create", store |-> id,
                      result |-> IF r.ok THEN "ok" ELSE "panic",
                      again |-> FALSE, adjacent |-> FALSE,
                      dup |-> \E i \in 1..Len(stores) :
                                 Live(i) /\ stores[i].prefix = name_prefix,
                      taken |-> Taken(name_prefix),
                      pre |-> registry]
        /\ destroyedActive' = IF r.ok THEN FALSE ELSE destroyedActive
        /\ destroyedSince' = {}
        /\ fresh' = IF r.ok THEN TRUE ELSE fresh
        /\ everCreated' = (everCreated \/ r.ok)
  /\ counters' = Append(counters, NewCounters)
  /\ incCalls' = Append(incCalls, 0)
  /\ response' = NoResponse
  /\ lastEventProcessedTime' = ZeroTime
  /\ UNCHANGED << now, recordedAt >>
  /\ UNCHANGED << raceVars, createVars >>

NewMetricsStore(name_prefix) ==
  /\ Len(stores) < MaxStores
  /\ LET id == Len(stores) + 1
         r  == RegisterFrom(registry, name_prefix, id, 1)
     IN /\ registry' = r.reg
        /\ stores' = Append(stores, [prefix |-> name_prefix, ok |-> r.ok])
        /\ globalMetricsStore' = ActiveAfterCreate(globalMetricsStore, id, r.ok)
        /\ lastOp' = [op |-> "Create", store |-> id,
                      result |-> IF r.ok THEN "ok" ELSE "panic",
                      again |-> FALSE, adjacent |-> FALSE,
                      dup |-> \E i \in 1..Len(stores) :
                                 Live(i) /\ stores[i].prefix = name_prefix,
                      taken |-> Taken(name_prefix),
                      pre |-> registry]
        /\ destroyedActive' = IF r.ok THEN FALSE ELSE destroyedActive
        /\ destroyedSince' = {}
        /\ fresh' = IF r.ok THEN TRUE ELSE fresh
        /\ everCreated' = (everCreated \/ r.ok)
  /\ counters' = Append(counters, NewCounters)
  /\ incCalls' = Append(incCalls, 0)
  /\ response' = NoResponse
  /\ UNCHANGED << lastEventProcessedTime, now, recordedAt >>
  /\ UNCHANGED << raceVars, createVars >>

DestroyMetricsStore(store) ==
  /\ store \in Handles
  /\ LET r == UnregisterFrom(registry, stores[store].prefix, 1)
     IN /\ registry' = r.reg
        /\ lastOp' = [op |-> "Destroy", store |-> store,
                      result |-> IF r.ok THEN "ok" ELSE "panic",
                      again |-> store \in destroyedSince,
                      adjacent |-> /\ lastOp.op = "Create"
                                   /\ lastOp.result = "ok"
                                   /\ lastOp.store = store,
                      dup |-> FALSE, taken |-> FALSE,
                      pre |-> IF lastOp.op = "Create" /\ lastOp.store = store
                              THEN lastOp.pre ELSE {}]
  /\ destroyedActive' = (destroyedActive \/ globalMetricsStore = store)
  /\ destroyedSince' = destroyedSince \cup {store}
  /\ fresh' = FALSE
  /\ response' = NoResponse
  /\ UNCHANGED << stores, globalMetricsStore, lastEventProcessedTime, now,
                  everCreated, recordedAt >>
  /\ UNCHANGED << raceVars, createVars, countVars >>

\* a call that records the first processed event only
SetLastEventProcessedTimeOnce ==
  /\ lastEventProcessedTime' =
       IF IsZero(lastEventProcessedTime) THEN TimeNow(now)
       ELSE lastEventProcessedTime
  /\ lastOp' = NoOp
  /\ response' = NoResponse
  /\ fresh' = FALSE
  /\ recordedAt' = now
  /\ UNCHANGED << registry, stores, globalMetricsStore, now,
                  destroyedActive, destroyedSince, everCreated >>
  /\ UNCHANGED << raceVars, createVars, countVars >>

SetLastEventProcessedTime ==
  /\ lastEventProcessedTime' = TimeNow(now)
  /\ lastOp' = NoOp
  /\ response' = NoResponse
  /\ fresh' = FALSE
  /\ recordedAt' = now
  /\ UNCHANGED << registry, stores, globalMetricsStore, now,
                  destroyedActive, destroyedSince, everCreated >>
  /\ UNCHANGED << raceVars, createVars, countVars >>

ReadyHandler ==
  /\ response' = IF Ready THEN ReadyResponse ELSE NotReadyResponse
  /\ lastOp' = NoOp
  /\ UNCHANGED << registry, stores, globalMetricsStore, lastEventProcessedTime,
                  now, destroyedActive, destroyedSince, fresh, everCreated,
                  recordedAt >>
  /\ UNCHANGED << raceVars, createVars, countVars >>

HealthyHandler ==
  /\ response' = HealthyResponse
  /\ lastOp' = NoOp
  /\ UNCHANGED << registry, stores, globalMetricsStore, lastEventProcessedTime,
                  now, destroyedActive, destroyedSince, fresh, everCreated,
                  recordedAt >>
  /\ UNCHANGED << raceVars, createVars, countVars >>

Next ==
  \/ Tick
  \/ \E p \in Prefixes : NewMetricsStore(p)
  \/ \E s \in 1..MaxStores : DestroyMetricsStore(s)
  \/ SetLastEventProcessedTime
  \/ ReadyHandler
  \/ HealthyHandler

Spec == Init /\ [][Next]_vars

\* ---- SetLastEventProcessedTime and isEventExporterReady, step by step ------
\* Nothing orders the accesses of the goroutines to lastEventProcessedTime:
\* the assignment stores the words of the Time one after the other, in an
\* order the build chooses, and the evaluator loads them one after the other.

storeVars == << registry, stores, globalMetricsStore >>

histVars ==
  << lastOp, destroyedActive, destroyedSince, fresh, everCreated, recordedAt >>

\* the process after NewMetricsStore("a_") returned on an empty registry
AfterCreate ==
  /\ registry = { [name |-> n, id |-> 1] : n \in BundleNames("a_") }
  /\ stores = << [prefix |-> "a_", ok |-> TRUE] >>
  /\ counters = << NewCounters >>
  /\ incCalls = << 0 >>
  /\ globalMetricsStore = 1
  /\ lastEventProcessedTime = ZeroTime
  /\ now = 1
  /\ response = NoResponse
  /\ lastOp = [NoOp EXCEPT !.op = "Create", !.store = 1]
  /\ destroyedActive = FALSE
  /\ destroyedSince = {}
  /\ fresh = TRUE
  /\ everCreated = TRUE
  /\ recordedAt = 0

InitRace == AfterCreate /\ RaceIdle /\ CreateIdle

\* the clock advances while the goroutines run
TickRace ==
  /\ now < MaxRaceNow
  /\ now' = now + 1
  /\ UNCHANGED << storeVars, lastEventProcessedTime, response, histVars,
                  raceVars, createVars, countVars >>

OtherWord(word) == IF word = "wall" THEN "ext" ELSE "wall"

\* time.Now()
WriterNow(w) ==
  /\ wpc[w] = "idle"
  /\ wnow' = [wnow EXCEPT ![w] = now]
  /\ wpc' = [wpc EXCEPT ![w] = "store1"]
  /\ UNCHANGED << storeVars, lastEventProcessedTime, now, response, histVars,
                  wfirst, rpc, robs, rafter, lastWrite, createVars, countVars >>

\* lastEventProcessedTime = ..., the first word
WriterStoreFirst(w) ==
  /\ wpc[w] = "store1"
  /\ \E word \in {"wall", "ext"} :
       /\ lastEventProcessedTime' =
            [lastEventProcessedTime EXCEPT ![word] = wnow[w]]
       /\ wfirst' = [wfirst EXCEPT ![w] = word]
  /\ wpc' = [wpc EXCEPT ![w] = "store2"]
  /\ UNCHANGED << storeVars, now, response, histVars, wnow, rpc, robs, rafter,
                  lastWrite, createVars, countVars >>

\* lastEventProcessedTime = ..., the other word
WriterStoreSecond(w) ==
  /\ wpc[w] = "store2"
  /\ lastEventProcessedTime' =
       [lastEventProcessedTime EXCEPT ![OtherWord(wfirst[w])] = wnow[w]]
  /\ lastWrite' = TimeNow(wnow[w])
  /\ wpc' = [wpc EXCEPT ![w] = "ret"]
  /\ recordedAt' = wnow[w]
  /\ fresh' = FALSE
  /\ lastOp' = NoOp
  /\ UNCHANGED << storeVars, now, response, destroyedActive, destroyedSince,
                  everCreated, wnow, wfirst, rpc, robs, rafter, createVars, countVars >>

\* SetLastEventProcessedTime returns
WriterReturn(w) ==
  /\ wpc[w] = "ret"
  /\ wpc' = [wpc EXCEPT ![w] = "done"]
  /\ UNCHANGED << storeVars, lastEventProcessedTime, now, response, histVars,
                  wnow, wfirst, rpc, robs, rafter, lastWrite, createVars, countVars >>

\* the request arrives; globalMetricsStore == nil
ReaderStart(r) ==
  /\ rpc[r] = "idle"
  /\ rafter' = [rafter EXCEPT ![r] = \A w \in Writers : wpc[w] = "done"]
  /\ IF globalMetricsStore = Nil
     THEN /\ rpc' = [rpc EXCEPT ![r] = "done"]
          /\ response' = NotReadyResponse
     ELSE /\ rpc' = [rpc EXCEPT ![r] = "loadWall"]
          /\ UNCHANGED response
  /\ UNCHANGED << storeVars, lastEventProcessedTime, now, histVars, wpc, wnow,
                  wfirst, robs, lastWrite, createVars, countVars >>

ReaderLoadWall(r) ==
  /\ rpc[r] = "loadWall"
  /\ robs' = [robs EXCEPT ![r].wall = lastEventProcessedTime.wall]
  /\ rpc' = [rpc EXCEPT ![r] = "loadExt"]
  /\ UNCHANGED << storeVars, lastEventProcessedTime, now, response, histVars,
                  wpc, wnow, wfirst, rafter, lastWrite, createVars, countVars >>

ReaderLoadExt(r) ==
  /\ rpc[r] = "loadExt"
  /\ robs' = [robs EXCEPT ![r].ext = lastEventProcessedTime.ext]
  /\ rpc' = [rpc EXCEPT ![r] = "answer"]
  /\ UNCHANGED << storeVars, lastEventProcessedTime, now, response, histVars,
                  wpc, wnow, wfirst, rafter, lastWrite, createVars, countVars >>

\* IsZero, time.Since and the status of the answer
ReaderAnswer(r) ==
  /\ rpc[r] = "answer"
  /\ \E wallAge \in {0, ReadyWindow} :
       response' =
         IF isEventExporterReady(globalMetricsStore, robs[r], now, wallAge)
         THEN ReadyResponse ELSE NotReadyResponse
  /\ rpc' = [rpc EXCEPT ![r] = "done"]
  /\ UNCHANGED << storeVars, lastEventProcessedTime, now, histVars, wpc, wnow,
                  wfirst, robs, rafter, lastWrite, createVars, countVars >>

NextRace ==
  \/ TickRace
  \/ \E w \in Writers : WriterNow(w)
  \/ \E w \in Writers : WriterStoreFirst(w)
  \/ \E w \in Writers : WriterStoreSecond(w)
  \/ \E w \in Writers : WriterReturn(w)
  \/ \E r \in Readers : ReaderStart(r)
  \/ \E r \in Readers : ReaderLoadWall(r)
  \/ \E r \in Readers : ReaderLoadExt(r)
  \/ \E r \in Readers : ReaderAnswer(r)

SpecRace == InitRace /\ [][NextRace]_vars

\* ---- two NewMetricsStore calls at once, one registration at a time ---------
CreatorStart(c, name_prefix) ==
  /\ cstate[c] = "idle"
  /\ Len(stores) < MaxStores
  /\ stores' = Append(stores, [prefix |-> name_prefix, ok |-> FALSE])
  /\ counters' = Append(counters, NewCounters)
  /\ incCalls' = Append(incCalls, 0)
  /\ cstore' = [cstore EXCEPT ![c] = Len(stores) + 1]
  /\ cidx' = [cidx EXCEPT ![c] = 1]
  /\ cstate' = [cstate EXCEPT ![c] = "run"]
  /\ cfree' = [cfree EXCEPT
                 ![c] = BundleNames(name_prefix) \cap Registered(registry) = {}]
  /\ coverlap' = [coverlap EXCEPT
                    ![c] = \E d \in Creators : d # c /\ cstate[d] = "run"]
  /\ UNCHANGED << registry, globalMetricsStore, lastEventProcessedTime, now,
                  response, histVars, raceVars >>

\* one promauto constructor: Register, panic on its error
CreatorRegister(c) ==
  /\ cstate[c] = "run"
  /\ cidx[c] <= Len(CreateOrder)
  /\ LET name == MetricName(stores[cstore[c]].prefix, CreateOrder[cidx[c]])
     IN IF CanRegister(registry, name)
        THEN /\ registry' = Register(registry, name, cstore[c])
             /\ cidx' = [cidx EXCEPT ![c] = cidx[c] + 1]
             /\ UNCHANGED cstate
        ELSE /\ cstate' = [cstate EXCEPT ![c] = "panic"]
             /\ UNCHANGED << registry, cidx >>
  /\ UNCHANGED << stores, globalMetricsStore, lastEventProcessedTime, now,
                  response, histVars, raceVars, cstore, cfree, coverlap,
                  countVars >>

\* globalMetricsStore = store; return store
CreatorReturn(c) ==
  /\ cstate[c] = "run"
  /\ cidx[c] > Len(CreateOrder)
  /\ globalMetricsStore' = cstore[c]
  /\ stores' = [stores EXCEPT ![cstore[c]].ok = TRUE]
  /\ cstate' = [cstate EXCEPT ![c] = "ok"]
  /\ everCreated' = TRUE
  /\ fresh' = TRUE
  /\ UNCHANGED << registry, lastEventProcessedTime, now, response, lastOp,
                  destroyedActive, destroyedSince, recordedAt, raceVars, cidx,
                  cstore, cfree, coverlap, countVars >>

NextCreate ==
  \/ \E c \in Creators : \E p \in Prefixes : CreatorStart(c, p)
  \/ \E c \in Creators : CreatorRegister(c)
  \/ \E c \in Creators : CreatorReturn(c)

SpecCreate == Init /\ [][NextCreate]_vars

\* ---- the counters and what /metrics exposes -------------------------------
\* store.EventsProcessed.Inc(), from any goroutine
EventsProcessedInc(store) ==
  /\ store \in Handles
  /\ counters[store]["events_sent"] < MaxIncs
  /\ counters' = [counters EXCEPT ![store]["events_sent"] = Inc(@)]
  /\ incCalls' = [incCalls EXCEPT ![store] = @ + 1]
  /\ lastOp' = NoOp
  /\ response' = NoResponse
  /\ UNCHANGED << storeVars, lastEventProcessedTime, now, destroyedActive,
                  destroyedSince, fresh, everCreated, recordedAt,
                  raceVars, createVars >>

\* the samples the /metrics handler gathers from the registered counters
Exposition ==
  { [name |-> MetricName(stores[i].prefix, c), value |-> counters[i][c]] :
      <<i, c>> \in
        { ic \in (1..Len(stores)) \X CounterSuffixes :
            [name |-> MetricName(stores[ic[1]].prefix, ic[2]), id |-> ic[1]]
              \in registry } }

NextCount ==
  \/ \E p \in Prefixes : NewMetricsStore(p)
  \/ \E s \in 1..MaxStores : EventsProcessedInc(s)

SpecCount == Init /\ [][NextCount]_vars

TypeOK ==
  /\ now \in 1..MaxNow
  /\ globalMetricsStore \in 0..MaxStores
  /\ Len(stores) <= MaxStores
  /\ recordedAt \in 0..MaxNow
  /\ lastEventProcessedTime = (IF recordedAt = 0 THEN ZeroTime ELSE TimeNow(recordedAt))

\* ---- claims ---------------------------------------------------------------

\* C1: after DestroyMetricsStore(b) of the Store that is the active
\* reference, and until the next NewMetricsStore that returns, the active
\* reference is Nil, the evaluator says not ready and /-/ready answers 503.
C1_DestroyClearsActive ==
  destroyedActive =>
    /\ globalMetricsStore = Nil
    /\ ~Ready
    /\ (response.route = "/-/ready" => response.status = StatusServiceUnavailable)

C4_DuplicateCreateReturnsError ==
  (lastOp.op = "Create" /\ lastOp.dup) => lastOp.result = "error"

\* C7: NewMetricsStore(prefix) that returns, followed at once by
\* DestroyMetricsStore of the Store it returned, leaves the registry as it
\* was before the NewMetricsStore.
C7_CreateDestroyRestores ==
  (lastOp.op = "Destroy" /\ lastOp.adjacent) => registry = lastOp.pre

C7_Witness ==
  /\ lastOp.op = "Destroy"
  /\ lastOp.adjacent
  /\ lastOp.pre # {}
  /\ registry = lastOp.pre

\* C8: a DestroyMetricsStore of a Store already destroyed, with no
\* NewMetricsStore in between, does not panic and changes neither the
\* registry nor the active reference.
C8_DestroyIdempotent ==
  [][ (lastOp'.op = "Destroy" /\ lastOp'.again) =>
        /\ lastOp'.result = "ok"
        /\ registry' = registry
        /\ globalMetricsStore' = globalMetricsStore ]_vars

C8_Witness ==
  /\ lastOp.op = "Destroy"
  /\ lastOp.again
  /\ lastOp.result = "ok"

\* C10: no instrument name is registered twice, and no two Stores of one
\* prefix have their instruments registered at the same time.
C10_OneBundlePerPrefix ==
  /\ \A e1 \in registry : \A e2 \in registry :
        e1.name = e2.name => e1 = e2
  /\ \A i \in Handles : \A j \in Handles :
        (Live(i) /\ Live(j) /\ stores[i].prefix = stores[j].prefix) => i = j

C10_Witness ==
  /\ lastOp.op = "Create"
  /\ lastOp.dup
  /\ lastOp.result = "panic"
  /\ \E i \in Handles : \E j \in Handles : i # j /\ Live(i) /\ Live(j)

\* C5: no store of lastEventProcessedTime is under way while another store
\* or a load of it is under way, and no evaluation works on a Time whose
\* words come from two different stores.
Writing(w) == wpc[w] = "store2"

Reading(r) == rpc[r] = "loadExt"

C5_AccessesAtomic ==
  /\ \A w \in Writers : \A v \in Writers : (Writing(w) /\ Writing(v)) => w = v
  /\ \A w \in Writers : \A r \in Readers : ~(Writing(w) /\ Reading(r))
  /\ \A r \in Readers : rpc[r] \in {"answer", "done"} => robs[r].wall = robs[r].ext

\* C6: an evaluation that starts after every SetLastEventProcessedTime call
\* has returned works on a Time no older, in either word, than the Time of
\* the store that completed last.
C6_ReadersSeeLastWrite ==
  \A r \in Readers :
    (rafter[r] /\ rpc[r] \in {"answer", "done"}) =>
      /\ robs[r].wall >= lastWrite.wall
      /\ robs[r].ext >= lastWrite.ext

\* C9: of the NewMetricsStore calls with one prefix that run at once, on a
\* registry in which the names of that prefix were free, exactly one
\* returns and every other one panics on the registration error.
SamePrefix(name_prefix) ==
  { c \in Creators :
      cstate[c] \in {"ok", "panic"} /\ stores[cstore[c]].prefix = name_prefix }

C9_ExactlyOneCreateWins ==
  \A p \in Prefixes :
    (SamePrefix(p) = Creators /\ \E c \in Creators : cfree[c]) =>
      /\ Cardinality({ c \in Creators : cstate[c] = "ok" }) = 1
      /\ Cardinality({ c \in Creators : cstate[c] = "panic" }) =
           Cardinality(Creators) - 1

C9_Witness ==
  /\ \E p \in Prefixes : SamePrefix(p) = Creators
  /\ \E c \in Creators : cfree[c]
  /\ \E c \in Creators : coverlap[c]
  /\ \E c \in Creators : cstate[c] = "ok"
  /\ \E c \in Creators : cstate[c] = "panic"
  /\ registry # {}

\* the Store of the latest NewMetricsStore call that returned
LatestHandle == CHOOSE i \in Handles : \A j \in Handles : j <= i

\* C11: the active reference is the Store returned by the most recent
\* NewMetricsStore that returned, whatever reference was there before.
C11_LastCreateIsActive ==
  /\ (Handles # {} /\ ~destroyedActive => globalMetricsStore = LatestHandle)
  /\ (lastOp.op = "Create" /\ lastOp.result = "ok" =>
        globalMetricsStore = lastOp.store)

C11_Witness ==
  /\ lastOp.op = "Create"
  /\ lastOp.result = "ok"
  /\ Cardinality(Handles) >= 2
  /\ globalMetricsStore = lastOp.store

SamplesNamed(name) == { x \in Exposition : x.name = name }

C13_CounterCountsIncrements ==
  /\ [](/\ (lastOp.op = "Create" /\ lastOp.result = "ok" =>
              \A c \in CounterSuffixes : counters[lastOp.store][c] = 0)
        /\ \A s \in Handles :
              SamplesNamed(MetricName(stores[s].prefix, "events_sent")) =
                { [name |-> MetricName(stores[s].prefix, "events_sent"),
                   value |-> incCalls[s]] })
  /\ [][\A s \in 1..Len(counters) : \A c \in CounterSuffixes :
           counters'[s][c] >= counters[s][c]]_vars

C13_Witness ==
  \E s \in Handles :
    /\ incCalls[s] = MaxIncs
    /\ [name |-> MetricName(stores[s].prefix, "events_sent"), value |-> MaxIncs]
         \in Exposition

\* C14: the /-/healthy handler can answer in every reachable state, and
\* every answer it gives is 200 with the body "OK", whatever the state of
\* the Stores and of the last processed event.
C14_HealthyAlwaysOK ==
  /\ ENABLED HealthyHandler
  /\ (response.route = "/-/healthy" =>
        response.status = StatusOK /\ response.body = "OK")

C14_Witness ==
  /\ response.route = "/-/healthy" /\ response.status = StatusOK
  /\ globalMetricsStore # Nil /\ Live(globalMetricsStore)
  /\ recordedAt # 0 /\ now - recordedAt >= ReadyWindow
  /\ ~Ready

\* C15: while globalMetricsStore names a Store and an event has been
\* processed, readiness is Not-Ready exactly when ReadyWindow minutes or more
\* have passed since the last SetLastEventProcessedTime call, and the
\* /-/ready handler answers accordingly; only a SetLastEventProcessedTime
\* call turns Not-Ready into Ready, and every such call leaves the service
\* Ready.
Stalled == recordedAt # 0 /\ now - recordedAt >= ReadyWindow

C15_StalledUntilNextRecord ==
  /\ [](globalMetricsStore # Nil /\ recordedAt # 0 =>
          /\ Ready <=> ~Stalled
          /\ response.route = "/-/ready" =>
               response = IF Stalled THEN NotReadyResponse ELSE ReadyResponse)
  /\ [][globalMetricsStore # Nil /\ recordedAt # 0 =>
          /\ (~Ready /\ Ready') => (recordedAt' = now /\ ~Stalled')
          /\ (recordedAt' = now /\ lastOp'.op = "none" /\ now' = now
                /\ response' = NoResponse) => Ready']_vars

C15_Witness ==
  /\ globalMetricsStore # Nil /\ Live(globalMetricsStore)
  /\ Stalled /\ now - recordedAt > ReadyWindow
  /\ response = NotReadyResponse

\* C16: lastEventProcessedTime is always the time of the last
\* SetLastEventProcessedTime call (the zero Time before the first one):
\* NewMetricsStore and DestroyMetricsStore, returning or panicking, leave it
\* as it is, and a SetLastEventProcessedTime call changes neither the
\* registry nor globalMetricsStore.
C16_OnlyRecordMovesTimestamp ==
  /\ [](lastEventProcessedTime =
          IF recordedAt = 0 THEN ZeroTime ELSE TimeNow(recordedAt))
  /\ [][/\ lastOp'.op \in {"Create", "Destroy"} =>
             lastEventProcessedTime' = lastEventProcessedTime
        /\ (lastEventProcessedTime' # lastEventProcessedTime
              \/ recordedAt' # recordedAt) =>
             /\ lastEventProcessedTime' = TimeNow(now)
             /\ registry' = registry
             /\ globalMetricsStore' = globalMetricsStore
             /\ stores' = stores]_vars

C16_Witness ==
  /\ lastOp.op = "Create" /\ lastOp.result = "ok"
  /\ globalMetricsStore = lastOp.store
  /\ \E s \in Handles : s # lastOp.store /\ ~Live(s)
  /\ recordedAt # 0 /\ lastEventProcessedTime = TimeNow(recordedAt)
  /\ Ready

C18_DestroyRemovesOnlyOwn ==
  [][lastOp'.op = "Destroy" =>
       \A e \in registry : e.id # lastOp'.store => e \in registry']_vars

\* C19: with SetLastEventProcessedTime callers running concurrently, each
\* reading the clock and then storing, and a clock that never steps back, no
\* store moves lastEventProcessedTime backwards.
C19_TimestampNeverMovesBack ==
  [][/\ lastEventProcessedTime'.wall >= lastEventProcessedTime.wall
     /\ lastEventProcessedTime'.ext >= lastEventProcessedTime.ext]_vars
====
